---- MODULE Spec2Model ----
(***************************************************************************)
(* Model of src/main/utils/chromeRequest.ts: the request() promise and its *)
(* event handlers, the response header extraction, and the post/put/patch  *)
(* wrappers.                                                               *)
(***************************************************************************)
EXTENDS Integers, Sequences, FiniteSets, TLC

\* ------------------------------------------------------------------ bounds
MaxRedirectEvents == 3
MaxMaxRedirects == 1
MaxChunks == 2
MaxRawPairs == 2
MaxCallerHeaders == 2
MaxCalls == 2

\* ------------------------------------------------------- program constants
DefaultTimeout == 30000

\* ------------------------------------------------------------------ values
Undefined == [tag |-> "undefined", protocol |-> "", host |-> "", port |-> 0]
False == [tag |-> "false", protocol |-> "", host |-> "", port |-> 0]
ProxyDescriptor == [tag |-> "proxy", protocol |-> "socks5", host |-> "127.0.0.1", port |-> 7890]
ProxyInputs == {Undefined, False, ProxyDescriptor}
OtherProxy == [tag |-> "proxy", protocol |-> "http", host |-> "10.0.0.2", port |-> 8080]

GoodUrl == "https://example.com/a"
BadUrl == "not a url"
Urls == {GoodUrl, BadUrl}
Timeouts == {-1, 0, 100, DefaultTimeout}
ResponseTypes == {"text", "json", "arraybuffer"}
NoBody == [tag |-> "undefined", bytes |-> <<>>]
StringBody == [tag |-> "string", bytes |-> <<"1">>]
BufferBody == [tag |-> "buffer", bytes |-> <<49>>]
Bodies == {NoBody, StringBody, BufferBody}
HeaderInputs == {<< >>, << <<"X-A", "v">> >>}

DefaultSession == <<"default">>
NullSession == << >>
Nows == {1000}
Rands == {1, 2}

StackErrors == {"net::ERR_FAILED"}
ChunkSet == {<<49>>, <<49, 120>>}

VARIABLES
  opts, pc, sessionToUse, tempPartition, sessions, caught,
  reqState, reqSession, reqCalls, handlers, abortQueued,
  timer, redirectCount, fetched, res, resMeta, chunks,
  promise, attempts, delivered, resEvent,
  rawHeaders, responseHeaders, hdrDone,
  wMethod, wData, wOptions, wCaller, wArgs, wCalls, wPc,
  pUrl, pProxy, pStage, pTempPartition, pSessionToUse, pSessions, pReqSession,
  pCaught, pPromise, pReqState, pTimer, pAbortQueued, pRes, pResMeta

reqVars == <<opts, pc, sessionToUse, tempPartition, sessions, caught,
             reqState, reqSession, reqCalls, handlers, abortQueued,
             timer, redirectCount, fetched, res, resMeta, chunks,
             promise, attempts, delivered, resEvent>>
hdrVars == <<rawHeaders, responseHeaders, hdrDone>>
wrapVars == <<wMethod, wData, wOptions, wCaller, wArgs, wCalls, wPc>>
pairVars == <<pUrl, pProxy, pStage, pTempPartition, pSessionToUse, pSessions, pReqSession,
              pCaught, pPromise, pReqState, pTimer, pAbortQueued, pRes, pResMeta>>
vars == <<reqVars, hdrVars, wrapVars, pairVars>>

\* ------------------------------------------------------------ error values
NoValue == [kind |-> "none", limit |-> 0, cause |-> ""]
TimeoutError(t) == [kind |-> "Request timeout after ms", limit |-> t, cause |-> ""]
TooManyRedirectsError(m) == [kind |-> "Too many redirects", limit |-> m, cause |-> ""]
AbortError == [kind |-> "Request aborted", limit |-> 0, cause |-> ""]
ParseError(c) == [kind |-> "Failed to parse response", limit |-> 0, cause |-> c]
ProxySetupError(c) == [kind |-> "Failed to setup proxy", limit |-> 0, cause |-> c]
TransportError(c) == [kind |-> "transport", limit |-> 0, cause |-> c]

\* ------------------------------------------------------- promise semantics
\* resolve/reject of a settled promise are ignored.
SettleAlways(p, st, v) == [state |-> st, value |-> v]
Settle(p, st, v) == IF p.state = "pending" THEN [state |-> st, value |-> v] ELSE p
Pending == [state |-> "pending", value |-> NoValue]

\* ------------------------------------------------------------ small helpers
ProxyRequestedNotUndefined(p) == p.tag # "undefined"
\* `if (proxy)`: an object is truthy, undefined and false are not.
ProxyRequested(p) == p.tag = "proxy"
PartitionName(now, rnd) == <<"temp-request", now, rnd>>
ProxyUrl(p) == <<p.protocol, "://", p.host, ":", p.port>>
UnsetRules == <<"unset">>
IsoNew == [cache |-> FALSE, proxyRules |-> UnsetRules]
\* Line 54: session.fromPartition(name, {cache: false}) returns the session
\* already registered under the name, and creates one only when there is none.
FromPartition(ss, name) ==
  IF name \in DOMAIN ss THEN ss ELSE (name :> IsoNew) @@ ss

\* A cleanup that drops the session reference whatever the session is.
CleanupUnconditional(s, tp) == NullSession
\* cleanup(): drops the session reference when a temporary partition was named.
Cleanup(s, tp) == IF tp # NullSession THEN NullSession ELSE s
\* `if (timeoutId) clearTimeout(timeoutId)`
ClearTimeout(t) == IF t = "pending" THEN "cleared" ELSE t
\* req.abort(): marks the request aborted and queues one 'abort' event.
AbortedState(rs) == IF rs \in {"created", "sent"} THEN "aborted" ELSE rs
DestroyedRes(r) == IF r = "open" THEN "destroyed" ELSE r
WellFormed(u) == u = GoodUrl

RECURSIVE Concat(_)
Concat(cs) == IF cs = << >> THEN << >> ELSE Head(cs) \o Concat(Tail(cs))

\* ------------------------------------------------- JS objects and strings
\* A JS object with string keys: its entries in insertion order, keys unique.
ObjHas(o, k) == \E i \in 1..Len(o) : o[i][1] = k
ObjSet(o, k, v) ==
  IF ObjHas(o, k)
  THEN [i \in 1..Len(o) |-> IF o[i][1] = k THEN <<k, v>> ELSE o[i]]
  ELSE Append(o, <<k, v>>)
ObjGet(o, k) == LET i == CHOOSE j \in 1..Len(o) : o[j][1] = k IN o[i][2]
ObjKeys(o) == {o[i][1] : i \in 1..Len(o)}
\* `!o[k]`: the key is absent, or its value is the empty string.
Falsy(o, k) == ~ObjHas(o, k) \/ ObjGet(o, k) = ""

\* String.prototype.toLowerCase on the header names of the model.
ToLowerCase(s) ==
  CASE s = "Set-Cookie" -> "set-cookie"
    [] s = "SET-COOKIE" -> "set-cookie"
    [] s = "Host" -> "host"
    [] s = "Content-Type" -> "content-type"
    [] s = "CONTENT-TYPE" -> "content-type"
    [] s = "X-A" -> "x-a"
    [] OTHER -> s

\* Lines 111-115: the loop over rawHeaders, two entries at a time.
RECURSIVE ExtractFromFirstWins(_, _, _)
ExtractFromFirstWins(raw, i, acc) ==
  IF i > Len(raw) THEN acc
  ELSE ExtractFromFirstWins(raw, i + 2,
         IF ObjHas(acc, ToLowerCase(raw[i])) THEN acc
         ELSE ObjSet(acc, ToLowerCase(raw[i]), raw[i + 1]))
RECURSIVE ExtractFrom(_, _, _)
ExtractFrom(raw, i, acc) ==
  IF i > Len(raw) THEN acc
  ELSE ExtractFrom(raw, i + 2, ObjSet(acc, ToLowerCase(raw[i]), raw[i + 1]))
ExtractHeadersFirstWins(raw) == ExtractFromFirstWins(raw, 1, << >>)
ExtractHeaders(raw) == ExtractFrom(raw, 1, << >>)

\* Buffer.toString('utf-8') on the bytes of the model (all ASCII).
CharOf(b) == CASE b = 49 -> "1" [] b = 120 -> "x" [] OTHER -> "?"
Utf8Decode(bytes) == [i \in 1..Len(bytes) |-> CharOf(bytes[i])]
\* JSON.parse on the strings of the model: a run of digits is a number,
\* everything else (the empty string included) is a SyntaxError.
DigitOf(c) == CASE c = "1" -> 1 [] OTHER -> 0
RECURSIVE Decimal(_)
Decimal(s) == IF s = << >> THEN 0 ELSE 10 * Decimal(SubSeq(s, 1, Len(s) - 1)) + DigitOf(s[Len(s)])
JsonValid(s) == Len(s) > 0 /\ \A i \in 1..Len(s) : s[i] = "1"
JsonParse(s) == [type |-> "number", text |-> << >>, bytes |-> << >>, num |-> Decimal(s)]
TextData(s) == [type |-> "string", text |-> s, bytes |-> << >>, num |-> 0]
BufferData(b) == [type |-> "buffer", text |-> << >>, bytes |-> b, num |-> 0]

NoMeta == [statusCode |-> 0, statusMessage |-> "", headers |-> << >>]
RedirectTarget == "https://example.com/b"
\* A response that reports the address the redirects led to.
ResponseValueFinalUrl(data, meta, url) ==
  [kind |-> "Response", data |-> data, status |-> meta.statusCode,
   statusText |-> meta.statusMessage, headers |-> meta.headers,
   url |-> IF fetched > 0 THEN RedirectTarget ELSE url]
ResponseValue(data, meta, url) ==
  [kind |-> "Response", data |-> data, status |-> meta.statusCode,
   statusText |-> meta.statusMessage, headers |-> meta.headers, url |-> url]
NoEvent == [statusCode |-> 0, statusMessage |-> "", rawHeaders |-> << >>]
\* The response events the stack may deliver: status line and raw headers.
ResponseEvents ==
  {[statusCode |-> 200, statusMessage |-> "OK", rawHeaders |-> << >>],
   [statusCode |-> 404, statusMessage |-> "Not Found",
    rawHeaders |-> <<"Set-Cookie", "a", "set-cookie", "b">>]}

\* =================================================== request(url, options)
OptionSet ==
  [url : Urls, headers : HeaderInputs, body : Bodies, proxy : ProxyInputs,
   timeout : Timeouts, responseType : ResponseTypes,
   followRedirect : BOOLEAN, maxRedirects : 0..MaxMaxRedirects]

InitReq ==
  /\ opts \in OptionSet
  /\ pc = "start"
  /\ sessionToUse = DefaultSession
  /\ tempPartition = NullSession
  /\ sessions = (DefaultSession :> [cache |-> TRUE, proxyRules |-> <<"system">>])
  /\ caught = ""
  /\ reqState = "none"
  /\ reqSession = NullSession
  /\ reqCalls = << >>
  /\ handlers = {}
  /\ abortQueued = FALSE
  /\ timer = "unset"
  /\ redirectCount = 0
  /\ fetched = 0
  /\ res = "none"
  /\ resMeta = NoMeta
  /\ chunks = << >>
  /\ promise = Pending
  /\ attempts = 0
  /\ delivered = << >>
  /\ resEvent = NoEvent

IdleReq ==
  /\ opts = [url |-> GoodUrl, headers |-> << >>, body |-> NoBody, proxy |-> Undefined,
             timeout |-> 0, responseType |-> "text", followRedirect |-> TRUE,
             maxRedirects |-> 0]
  /\ pc = "idle"
  /\ sessionToUse = DefaultSession
  /\ tempPartition = NullSession
  /\ sessions = (DefaultSession :> [cache |-> TRUE, proxyRules |-> <<"system">>])
  /\ caught = ""
  /\ reqState = "none"
  /\ reqSession = NullSession
  /\ reqCalls = << >>
  /\ handlers = {}
  /\ abortQueued = FALSE
  /\ timer = "unset"
  /\ redirectCount = 0
  /\ fetched = 0
  /\ res = "none"
  /\ resMeta = NoMeta
  /\ chunks = << >>
  /\ promise = Pending
  /\ attempts = 0
  /\ delivered = << >>
  /\ resEvent = NoEvent

\* Lines 45-69: the promise executor runs setupProxy() up to its await.
Request ==
  /\ pc = "start"
  /\ IF ProxyRequested(opts.proxy)
     THEN \E now \in Nows, rnd \in Rands, provisioned \in BOOLEAN :
            /\ tempPartition' = PartitionName(now, rnd)
            /\ IF provisioned
               THEN /\ sessionToUse' = tempPartition'
                    /\ sessions' = FromPartition(sessions, tempPartition')
                    /\ pc' = "awaitProxy"
                    /\ caught' = caught
               ELSE /\ pc' = "catchQueued"
                    /\ caught' = "fromPartition failed"
                    /\ UNCHANGED <<sessionToUse, sessions>>
     ELSE /\ pc' = "thenQueued"
          /\ UNCHANGED <<sessionToUse, tempPartition, sessions, caught>>
  /\ UNCHANGED <<opts, reqState, reqSession, reqCalls, handlers, abortQueued, timer,
                 redirectCount, fetched, res, resMeta, chunks, promise, attempts>>
  /\ UNCHANGED <<delivered, resEvent, hdrVars, wrapVars, pairVars>>

\* Line 56: the awaited setProxy resolves.
SetProxyResolves ==
  /\ pc = "awaitProxy"
  /\ sessions' = [sessions EXCEPT ![sessionToUse].proxyRules = ProxyUrl(opts.proxy)]
  /\ pc' = "thenQueued"
  /\ UNCHANGED <<opts, sessionToUse, tempPartition, caught, reqState, reqSession,
                 reqCalls, handlers, abortQueued, timer, redirectCount, fetched, res,
                 resMeta, chunks, promise, attempts>>
  /\ UNCHANGED <<delivered, resEvent, hdrVars, wrapVars, pairVars>>

\* A rejected setProxy whose failure is swallowed, so the then-callback runs.
SetProxyRejectsThenRuns ==
  /\ pc = "awaitProxy"
  /\ pc' = "thenQueued"
  /\ caught' = "setProxy failed"
  /\ UNCHANGED <<opts, sessionToUse, tempPartition, sessions, reqState, reqSession,
                 reqCalls, handlers, abortQueued, timer, redirectCount, fetched, res,
                 resMeta, chunks, promise, attempts>>
  /\ UNCHANGED <<delivered, resEvent, hdrVars, wrapVars, pairVars>>

\* Line 56: the awaited setProxy rejects.
SetProxyRejects ==
  /\ pc = "awaitProxy"
  /\ pc' = "catchQueued"
  /\ caught' = "setProxy failed"
  /\ UNCHANGED <<opts, sessionToUse, tempPartition, sessions, reqState, reqSession,
                 reqCalls, handlers, abortQueued, timer, redirectCount, fetched, res,
                 resMeta, chunks, promise, attempts>>
  /\ UNCHANGED <<delivered, resEvent, hdrVars, wrapVars, pairVars>>

\* Lines 80-82: one setHeader call per entry, in insertion order.
SetHeaderCalls(h) == [i \in 1..Len(h) |-> <<"setHeader", h[i][1], h[i][2]>>]
\* Lines 173-179: `if (body)`; a string is written as utf-8, a buffer as is.
BodyTruthy(b) == b.tag = "buffer" \/ (b.tag = "string" /\ b.bytes # << >>)
WriteCalls(b) ==
  IF ~BodyTruthy(b) THEN << >>
  ELSE IF b.tag = "string" THEN << <<"write", b.bytes, "utf-8">> >>
  ELSE << <<"write", b.bytes, "">> >>
RequestHandlers == {"redirect", "response", "error", "abort"}
\* Lines 97, 107, 160, 166: the handlers, in the order they are registered.
OnCalls == << <<"on", "redirect">>, <<"on", "response">>, <<"on", "error">>, <<"on", "abort">> >>
\* The calls with req.end() placed before the body is written.
SendCallsEndBeforeWrite(o) ==
  SetHeaderCalls(o.headers) \o OnCalls \o << <<"end">> >> \o WriteCalls(o.body)
\* Lines 79-181: what the then-callback calls on req, in program order.
SendCalls(o) ==
  SetHeaderCalls(o.headers) \o OnCalls \o WriteCalls(o.body) \o << <<"end">> >>

\* Line 86: `if (timeout > 0)`, and the variant that also arms a timer of 0 ms.
TimerWantedNonNegative(t) == t >= 0
TimerWanted(t) == t > 0

\* The places of the then-callback where a call into the stack may throw.
ThrowPoints(o) ==
  (IF WellFormed(o.url) THEN {"none", "end"} ELSE {"request"})
  \cup (IF WellFormed(o.url) /\ o.headers # << >> THEN {"setHeader"} ELSE {})
  \cup (IF WellFormed(o.url) /\ BodyTruthy(o.body) THEN {"write"} ELSE {})
ThrownCause(t) ==
  CASE t = "request" -> "Invalid URL"
    [] t = "setHeader" -> "Invalid header"
    [] t = "write" -> "write failed"
    [] t = "end" -> "end failed"
    [] OTHER -> ""

\* Lines 70-182: the then-callback, run as one step.
ThenCallback ==
  /\ pc = "thenQueued"
  /\ \E t \in ThrowPoints(opts) :
       /\ pc' = IF t = "none" THEN "sent" ELSE "catchQueued"
       /\ caught' = ThrownCause(t)
       /\ reqState' = CASE t = "request" -> "none" [] t = "none" -> "sent" [] OTHER -> "created"
       /\ reqSession' = IF t = "request" THEN reqSession ELSE sessionToUse
       /\ reqCalls' =
            CASE t = "request" -> << >>
              [] t = "setHeader" -> << >>
              [] t = "write" -> SetHeaderCalls(opts.headers) \o OnCalls
              [] t = "end" -> SetHeaderCalls(opts.headers) \o OnCalls \o WriteCalls(opts.body)
              [] OTHER -> SendCalls(opts)
       /\ timer' = IF t \in {"write", "end", "none"} /\ TimerWanted(opts.timeout)
                 THEN "pending" ELSE timer
       /\ handlers' = IF t \in {"write", "end", "none"} THEN RequestHandlers ELSE handlers
  /\ UNCHANGED <<opts, sessionToUse, tempPartition, sessions, abortQueued, redirectCount,
                 fetched, res, resMeta, chunks, promise, attempts>>
  /\ UNCHANGED <<delivered, resEvent, hdrVars, wrapVars, pairVars>>

\* Lines 183-186: the catch branch.
CatchCallback ==
  /\ pc = "catchQueued"
  /\ pc' = "caught"
  /\ sessionToUse' = Cleanup(sessionToUse, tempPartition)
  /\ promise' = Settle(promise, "rejected", ProxySetupError(caught))
  /\ attempts' = attempts + 1
  /\ UNCHANGED <<opts, tempPartition, sessions, caught, reqState, reqSession, reqCalls,
                 handlers, abortQueued, timer, redirectCount, fetched, res, resMeta, chunks>>
  /\ UNCHANGED <<delivered, resEvent, hdrVars, wrapVars, pairVars>>

\* ---------------------------------------------------------- event handlers
\* The timeout callback without its reject (a bug the outcome would show).
TimerFiresNoReject ==
  /\ timer = "pending"
  /\ pc # "catchQueued"
  /\ timer' = "fired"
  /\ reqCalls' = Append(reqCalls, <<"abort">>)
  /\ reqState' = AbortedState(reqState)
  /\ abortQueued' = (abortQueued \/ reqState \in {"created", "sent"})
  /\ res' = DestroyedRes(res)
  /\ sessionToUse' = Cleanup(sessionToUse, tempPartition)
  /\ UNCHANGED <<promise, attempts>>
  /\ UNCHANGED <<opts, pc, tempPartition, sessions, caught, reqSession, handlers,
                 redirectCount, fetched, resMeta, chunks>>
  /\ UNCHANGED <<delivered, resEvent, hdrVars, wrapVars, pairVars>>

\* Lines 87-91: the timeout callback. Queued microtasks (the catch branch)
\* run before any timer.
TimerFires ==
  /\ timer = "pending"
  /\ pc # "catchQueued"
  /\ timer' = "fired"
  /\ reqCalls' = Append(reqCalls, <<"abort">>)
  /\ reqState' = AbortedState(reqState)
  /\ abortQueued' = (abortQueued \/ reqState \in {"created", "sent"})
  /\ res' = DestroyedRes(res)
  /\ sessionToUse' = Cleanup(sessionToUse, tempPartition)
  /\ promise' = Settle(promise, "rejected", TimeoutError(opts.timeout))
  /\ attempts' = attempts + 1
  /\ UNCHANGED <<opts, pc, tempPartition, sessions, caught, reqSession, handlers,
                 redirectCount, fetched, resMeta, chunks>>
  /\ UNCHANGED <<delivered, resEvent, hdrVars, wrapVars, pairVars>>

\* `redirectCount > maxRedirects`, and the off-by-one variant.
OverLimitInclusive(n, m) == n >= m
OverLimit(n, m) == n > m

\* Lines 97-105: the redirect handler. In manual mode the stack does not
\* follow the redirect, so it reports at most one.
Redirect ==
  /\ pc = "sent" /\ reqState = "sent" /\ res = "none"
  /\ "redirect" \in handlers
  /\ redirectCount < MaxRedirectEvents
  /\ opts.followRedirect \/ redirectCount = 0
  /\ redirectCount' = redirectCount + 1
  /\ IF OverLimit(redirectCount', opts.maxRedirects)
     THEN /\ reqCalls' = Append(reqCalls, <<"abort">>)
          /\ reqState' = "aborted"
          /\ abortQueued' = TRUE
          /\ sessionToUse' = Cleanup(sessionToUse, tempPartition)
          /\ timer' = ClearTimeout(timer)
          /\ promise' = Settle(promise, "rejected", TooManyRedirectsError(opts.maxRedirects))
          /\ attempts' = attempts + 1
          /\ fetched' = fetched
     ELSE /\ fetched' = IF opts.followRedirect THEN fetched + 1 ELSE fetched
          /\ UNCHANGED <<reqCalls, reqState, abortQueued, sessionToUse, timer, promise,
                         attempts>>
  /\ UNCHANGED <<opts, pc, tempPartition, sessions, caught, reqSession, handlers, res,
                 resMeta, chunks>>
  /\ UNCHANGED <<delivered, resEvent, hdrVars, wrapVars, pairVars>>

\* Lines 107-119, 121, 153: the response handler captures status and headers
\* and registers the body handlers.
Response ==
  /\ pc = "sent" /\ reqState = "sent" /\ res = "none"
  /\ "response" \in handlers
  /\ \E r \in ResponseEvents :
       /\ resEvent' = r
       /\ resMeta' = [statusCode |-> r.statusCode, statusMessage |-> r.statusMessage,
                      headers |-> ExtractHeaders(r.rawHeaders)]
  /\ res' = "open"
  /\ UNCHANGED <<opts, pc, sessionToUse, tempPartition, sessions, caught, reqState,
                 reqSession, reqCalls, handlers, abortQueued, timer, redirectCount,
                 fetched, chunks, promise, attempts>>
  /\ UNCHANGED <<delivered, hdrVars, wrapVars, pairVars>>

\* chunks.push(chunk), and a handler that keeps only the latest chunk.
PushReplacing(cs, c) == << c >>
Push(cs, c) == Append(cs, c)

\* Lines 117-119: a body chunk arrives.
Data ==
  /\ reqState = "sent" /\ res = "open"
  /\ Len(delivered) < MaxChunks
  /\ \E c \in ChunkSet :
       /\ delivered' = Append(delivered, c)
       /\ chunks' = Push(chunks, c)
  /\ UNCHANGED <<opts, pc, sessionToUse, tempPartition, sessions, caught, reqState,
                 reqSession, reqCalls, handlers, abortQueued, timer, redirectCount,
                 fetched, res, resMeta, promise, attempts>>
  /\ UNCHANGED <<resEvent, hdrVars, wrapVars, pairVars>>

\* The decoding without the try/catch around JSON.parse.
DecodedNoThrow(rt, buffer) ==
  CASE rt = "json" ->
         IF JsonValid(Utf8Decode(buffer))
         THEN [ok |-> TRUE, data |-> JsonParse(Utf8Decode(buffer))]
         ELSE [ok |-> TRUE, data |-> TextData(<< >>)]
    [] rt = "arraybuffer" -> [ok |-> TRUE, data |-> BufferData(buffer)]
    [] OTHER -> [ok |-> TRUE, data |-> TextData(Utf8Decode(buffer))]
\* Lines 125-150: decode the body and settle.
Decoded(rt, buffer) ==
  CASE rt = "json" ->
         IF JsonValid(Utf8Decode(buffer))
         THEN [ok |-> TRUE, data |-> JsonParse(Utf8Decode(buffer))]
         ELSE [ok |-> FALSE, data |-> TextData(<< >>)]
    [] rt = "arraybuffer" -> [ok |-> TRUE, data |-> BufferData(buffer)]
    [] OTHER -> [ok |-> TRUE, data |-> TextData(Utf8Decode(buffer))]

\* Lines 121-151: the body stream ends.
End ==
  /\ reqState = "sent" /\ res = "open"
  /\ res' = "ended"
  /\ reqState' = "done"
  /\ sessionToUse' = Cleanup(sessionToUse, tempPartition)
  /\ timer' = ClearTimeout(timer)
  /\ LET d == Decoded(opts.responseType, Concat(chunks)) IN
       promise' = IF d.ok
                  THEN Settle(promise, "resolved", ResponseValue(d.data, resMeta, opts.url))
                  ELSE Settle(promise, "rejected", ParseError("SyntaxError"))
  /\ attempts' = attempts + 1
  /\ UNCHANGED <<opts, pc, tempPartition, sessions, caught, reqSession, reqCalls,
                 handlers, abortQueued, redirectCount, fetched, resMeta, chunks>>
  /\ UNCHANGED <<delivered, resEvent, hdrVars, wrapVars, pairVars>>

\* Lines 153-157: the body stream fails.
ResError ==
  /\ reqState = "sent" /\ res = "open"
  /\ res' = "errored"
  /\ reqState' = "errored"
  /\ sessionToUse' = Cleanup(sessionToUse, tempPartition)
  /\ timer' = ClearTimeout(timer)
  /\ \E e \in StackErrors : promise' = Settle(promise, "rejected", TransportError(e))
  /\ attempts' = attempts + 1
  /\ UNCHANGED <<opts, pc, tempPartition, sessions, caught, reqSession, reqCalls,
                 handlers, abortQueued, redirectCount, fetched, resMeta, chunks>>
  /\ UNCHANGED <<delivered, resEvent, hdrVars, wrapVars, pairVars>>

\* Lines 160-164: the request fails.
ReqError ==
  /\ pc = "sent" /\ reqState = "sent"
  /\ "error" \in handlers
  /\ reqState' = "errored"
  /\ res' = DestroyedRes(res)
  /\ sessionToUse' = Cleanup(sessionToUse, tempPartition)
  /\ timer' = ClearTimeout(timer)
  /\ \E e \in StackErrors : promise' = Settle(promise, "rejected", TransportError(e))
  /\ attempts' = attempts + 1
  /\ UNCHANGED <<opts, pc, tempPartition, sessions, caught, reqSession, reqCalls,
                 handlers, abortQueued, redirectCount, fetched, resMeta, chunks>>
  /\ UNCHANGED <<delivered, resEvent, hdrVars, wrapVars, pairVars>>

\* Lines 166-170: the abort handler, run for the 'abort' event that req.abort()
\* queued, or for an abort of the in-flight request from outside the call.
AbortEvent ==
  /\ "abort" \in handlers
  /\ abortQueued \/ (pc = "sent" /\ reqState = "sent")
  /\ abortQueued' = FALSE
  /\ reqState' = "aborted"
  /\ res' = DestroyedRes(res)
  /\ sessionToUse' = Cleanup(sessionToUse, tempPartition)
  /\ timer' = ClearTimeout(timer)
  /\ promise' = Settle(promise, "rejected", AbortError)
  /\ attempts' = attempts + 1
  /\ UNCHANGED <<opts, pc, tempPartition, sessions, caught, reqSession, reqCalls,
                 handlers, redirectCount, fetched, resMeta, chunks>>
  /\ UNCHANGED <<delivered, resEvent, hdrVars, wrapVars, pairVars>>

\* ============================================= response header extraction
RawNames == {"Set-Cookie", "set-cookie", "SET-COOKIE", "Host", "host"}
RawValues == {"a", "b"}
Flatten(ps) ==
  [i \in 1..(2 * Len(ps)) |-> IF i % 2 = 1 THEN ps[(i + 1) \div 2][1] ELSE ps[i \div 2][2]]
RawSeqs == {Flatten(ps) : ps \in UNION {[1..n -> RawNames \X RawValues] : n \in 0..MaxRawPairs}}

InitHdr ==
  /\ rawHeaders \in RawSeqs
  /\ responseHeaders = << >>
  /\ hdrDone = FALSE

IdleHdr ==
  /\ rawHeaders = << >>
  /\ responseHeaders = << >>
  /\ hdrDone = TRUE

\* Lines 110-115 on the raw headers of one response event.
ResponseHeaders ==
  /\ ~hdrDone
  /\ responseHeaders' = ExtractHeaders(rawHeaders)
  /\ hdrDone' = TRUE
  /\ UNCHANGED rawHeaders
  /\ UNCHANGED <<reqVars, wrapVars, pairVars>>

\* ================================================ get/post/put/del/patch
ContentType == "content-type"
ApplicationJson == "application/json"
CallerKeys == {"content-type", "Content-Type", "x-a"}
CallerValues == {"text/plain", "text/html"}
UniqueKeys(o) == \A i, j \in 1..Len(o) : o[i][1] = o[j][1] => i = j
CallerHeaders ==
  {o \in UNION {[1..n -> CallerKeys \X CallerValues] : n \in 0..MaxCallerHeaders} :
     UniqueKeys(o)}
\* options undefined, options without headers, options with a headers object
WrapOptionSet ==
  {[defined |-> FALSE, hasHeaders |-> FALSE, headers |-> << >>],
   [defined |-> TRUE, hasHeaders |-> FALSE, headers |-> << >>]}
  \cup {[defined |-> TRUE, hasHeaders |-> TRUE, headers |-> h] : h \in CallerHeaders}
StringData == [type |-> "string", text |-> "plain text"]
ObjectData == [type |-> "object", text |-> "x:1"]
NumberData == [type |-> "number", text |-> "1"]
DataInputs == {StringData, ObjectData, NumberData}
\* JSON.stringify on the values of the model.
JsonStringify(d) == IF d.type = "object" THEN "{\"x\":1}" ELSE d.text
NoArgs == [method |-> "", body |-> "", hasBody |-> FALSE, headers |-> << >>, hasHeaders |-> FALSE]

InitWrap ==
  /\ wOptions \in WrapOptionSet
  /\ wData \in DataInputs
  /\ wCaller = wOptions.headers
  /\ wMethod = ""
  /\ wArgs = NoArgs
  /\ wCalls = << >>
  /\ wPc = "ready"

IdleWrap ==
  /\ wOptions = [defined |-> FALSE, hasHeaders |-> FALSE, headers |-> << >>]
  /\ wData = StringData
  /\ wCaller = << >>
  /\ wMethod = ""
  /\ wArgs = NoArgs
  /\ wCalls = << >>
  /\ wPc = "idle"

\* Lines 206-211 (and 222-227, 246-251): the body-bearing wrappers. `headers`
\* is the caller's own object when options.headers is set, a fresh one otherwise.
BodyWrapper(method) ==
  /\ wPc = "ready"
  /\ wMethod' = method
  /\ LET body == IF wData.type = "string" THEN wData.text ELSE JsonStringify(wData)
         headers == IF wOptions.hasHeaders THEN wCaller ELSE << >>
         inject == wData.type # "string" /\ Falsy(headers, ContentType)
         headers2 == IF inject THEN ObjSet(headers, ContentType, ApplicationJson) ELSE headers
     IN /\ wCaller' = IF wOptions.hasHeaders THEN headers2 ELSE wCaller
        /\ wArgs' = [method |-> method, body |-> body, hasBody |-> TRUE,
                     headers |-> headers2, hasHeaders |-> TRUE]
  /\ wPc' = "called"
  /\ UNCHANGED <<wData, wOptions, wCalls>>
  /\ UNCHANGED <<reqVars, hdrVars, pairVars>>

\* Line 196 (and 236): `{ ...options, method }`.
PlainWrapper(method) ==
  /\ wPc = "ready"
  /\ wMethod' = method
  /\ wArgs' = [method |-> method, body |-> "", hasBody |-> FALSE,
               headers |-> wCaller, hasHeaders |-> wOptions.hasHeaders]
  /\ wPc' = "called"
  /\ UNCHANGED <<wData, wOptions, wCaller, wCalls>>
  /\ UNCHANGED <<reqVars, hdrVars, pairVars>>

Get == PlainWrapper("GET")
Post == BodyWrapper("POST")
Put == BodyWrapper("PUT")
Del == PlainWrapper("DELETE")
Patch == BodyWrapper("PATCH")

\* Lines 36 and 80-82: request() applies the headers it was given.
ApplyHeaders ==
  /\ wPc = "called"
  /\ wCalls' = SetHeaderCalls(IF wArgs.hasHeaders THEN wArgs.headers ELSE << >>)
  /\ wPc' = "applied"
  /\ UNCHANGED <<wMethod, wData, wOptions, wCaller, wArgs>>
  /\ UNCHANGED <<reqVars, hdrVars, pairVars>>

\* What the request carries after the setHeader calls: the stack keys headers
\* by lowercased name, so a later call replaces an earlier one.
RECURSIVE AppliedFrom(_, _, _)
AppliedFrom(calls, i, acc) ==
  IF i > Len(calls) THEN acc
  ELSE AppliedFrom(calls, i + 1, ObjSet(acc, ToLowerCase(calls[i][2]), calls[i][3]))
AppliedHeaders(calls) == AppliedFrom(calls, 1, << >>)

\* ============================================ two calls in flight together
\* Two calls request(url, {proxy}) interleave at their awaits and events; they
\* share the session registry of the process, and each has its own closure
\* variables. The other options take their defaults (timeout 30000, text, no
\* headers, no body); the stack delivers responses without body chunks and
\* without redirects.
Calls == 1..MaxCalls
PairProxies == {Undefined, ProxyDescriptor, OtherProxy}
DefaultSessions == (DefaultSession :> [cache |-> TRUE, proxyRules |-> <<"system">>])
NoReqSession == [session |-> NullSession, proxyRules |-> UnsetRules]
PairOpts(c) == [url |-> pUrl[c], headers |-> << >>, body |-> NoBody, proxy |-> pProxy[c],
                timeout |-> DefaultTimeout, responseType |-> "text"]
\* The handlers of lines 97-170 are registered once net.request has returned.
PairHandlers(c) == IF pReqSession[c] = NoReqSession THEN {} ELSE RequestHandlers

InitPair ==
  /\ pUrl \in [Calls -> Urls]
  /\ pProxy \in [Calls -> PairProxies]
  /\ pStage = [c \in Calls |-> "start"]
  /\ pTempPartition = [c \in Calls |-> NullSession]
  /\ pSessionToUse = [c \in Calls |-> DefaultSession]
  /\ pSessions = DefaultSessions
  /\ pReqSession = [c \in Calls |-> NoReqSession]
  /\ pCaught = [c \in Calls |-> ""]
  /\ pPromise = [c \in Calls |-> Pending]
  /\ pReqState = [c \in Calls |-> "none"]
  /\ pTimer = [c \in Calls |-> "unset"]
  /\ pAbortQueued = [c \in Calls |-> FALSE]
  /\ pRes = [c \in Calls |-> "none"]
  /\ pResMeta = [c \in Calls |-> NoMeta]

IdlePair ==
  /\ pUrl = [c \in Calls |-> GoodUrl]
  /\ pProxy = [c \in Calls |-> Undefined]
  /\ pStage = [c \in Calls |-> "idle"]
  /\ pTempPartition = [c \in Calls |-> NullSession]
  /\ pSessionToUse = [c \in Calls |-> DefaultSession]
  /\ pSessions = DefaultSessions
  /\ pReqSession = [c \in Calls |-> NoReqSession]
  /\ pCaught = [c \in Calls |-> ""]
  /\ pPromise = [c \in Calls |-> Pending]
  /\ pReqState = [c \in Calls |-> "none"]
  /\ pTimer = [c \in Calls |-> "unset"]
  /\ pAbortQueued = [c \in Calls |-> FALSE]
  /\ pRes = [c \in Calls |-> "none"]
  /\ pResMeta = [c \in Calls |-> NoMeta]

\* Lines 45-69: call c runs its executor and setupProxy() up to its await.
PairRequest(c) ==
  /\ pStage[c] = "start"
  /\ IF ProxyRequested(pProxy[c])
     THEN \E now \in Nows, rnd \in Rands, provisioned \in BOOLEAN :
            /\ pTempPartition' = [pTempPartition EXCEPT ![c] = PartitionName(now, rnd)]
            /\ IF provisioned
               THEN /\ pSessionToUse' =
                         [pSessionToUse EXCEPT ![c] = PartitionName(now, rnd)]
                    /\ pSessions' = FromPartition(pSessions, PartitionName(now, rnd))
                    /\ pStage' = [pStage EXCEPT ![c] = "awaitProxy"]
                    /\ pCaught' = pCaught
               ELSE /\ pStage' = [pStage EXCEPT ![c] = "catchQueued"]
                    /\ pCaught' = [pCaught EXCEPT ![c] = "fromPartition failed"]
                    /\ UNCHANGED <<pSessionToUse, pSessions>>
     ELSE /\ pStage' = [pStage EXCEPT ![c] = "thenQueued"]
          /\ UNCHANGED <<pTempPartition, pSessionToUse, pSessions, pCaught>>
  /\ UNCHANGED <<pUrl, pProxy, pReqSession, pPromise, pReqState, pTimer, pAbortQueued,
                 pRes, pResMeta>>
  /\ UNCHANGED <<reqVars, hdrVars, wrapVars>>

\* Line 56: call c's setProxy takes effect on its session and resolves.
PairSetProxyResolves(c) ==
  /\ pStage[c] = "awaitProxy"
  /\ pSessions' = [pSessions EXCEPT ![pSessionToUse[c]].proxyRules = ProxyUrl(pProxy[c])]
  /\ pStage' = [pStage EXCEPT ![c] = "thenQueued"]
  /\ UNCHANGED <<pUrl, pProxy, pTempPartition, pSessionToUse, pReqSession, pCaught,
                 pPromise, pReqState, pTimer, pAbortQueued, pRes, pResMeta>>
  /\ UNCHANGED <<reqVars, hdrVars, wrapVars>>

\* Line 56: call c's awaited setProxy rejects; its catch callback is queued
\* and other calls' callbacks may run before it.
PairSetProxyRejects(c) ==
  /\ pStage[c] = "awaitProxy"
  /\ pStage' = [pStage EXCEPT ![c] = "catchQueued"]
  /\ pCaught' = [pCaught EXCEPT ![c] = "setProxy failed"]
  /\ UNCHANGED <<pUrl, pProxy, pTempPartition, pSessionToUse, pSessions, pReqSession,
                 pPromise, pReqState, pTimer, pAbortQueued, pRes, pResMeta>>
  /\ UNCHANGED <<reqVars, hdrVars, wrapVars>>

\* Lines 70-182: call c's then-callback, run as one step: net.request on
\* sessionToUse, the timer, the handlers, req.end(); any of the calls may throw.
PairThenCallback(c) ==
  /\ pStage[c] = "thenQueued"
  /\ \E t \in ThrowPoints(PairOpts(c)) :
       /\ pStage' = [pStage EXCEPT ![c] = IF t = "none" THEN "sent" ELSE "catchQueued"]
       /\ pCaught' = [pCaught EXCEPT ![c] = ThrownCause(t)]
       /\ pReqState' = [pReqState EXCEPT ![c] =
                          CASE t = "request" -> "none" [] t = "none" -> "sent"
                            [] OTHER -> "created"]
       /\ pReqSession' =
            IF t = "request" THEN pReqSession
            ELSE [pReqSession EXCEPT ![c] =
                    [session |-> pSessionToUse[c],
                     proxyRules |-> pSessions[pSessionToUse[c]].proxyRules]]
       /\ pTimer' = IF t \in {"write", "end", "none"} /\ TimerWanted(PairOpts(c).timeout)
                    THEN [pTimer EXCEPT ![c] = "pending"] ELSE pTimer
  /\ UNCHANGED <<pUrl, pProxy, pTempPartition, pSessionToUse, pSessions, pPromise,
                 pAbortQueued, pRes, pResMeta>>
  /\ UNCHANGED <<reqVars, hdrVars, wrapVars>>

\* Lines 183-186: call c's catch branch.
PairCatchCallback(c) ==
  /\ pStage[c] = "catchQueued"
  /\ pStage' = [pStage EXCEPT ![c] = "caught"]
  /\ pSessionToUse' =
       [pSessionToUse EXCEPT ![c] = Cleanup(pSessionToUse[c], pTempPartition[c])]
  /\ pPromise' =
       [pPromise EXCEPT ![c] = Settle(pPromise[c], "rejected", ProxySetupError(pCaught[c]))]
  /\ UNCHANGED <<pUrl, pProxy, pTempPartition, pSessions, pReqSession, pCaught,
                 pReqState, pTimer, pAbortQueued, pRes, pResMeta>>
  /\ UNCHANGED <<reqVars, hdrVars, wrapVars>>

\* Lines 87-91: call c's timer fires.
PairTimerFires(c) ==
  /\ pTimer[c] = "pending"
  /\ pStage[c] # "catchQueued"
  /\ pTimer' = [pTimer EXCEPT ![c] = "fired"]
  /\ pReqState' = [pReqState EXCEPT ![c] = AbortedState(pReqState[c])]
  /\ pAbortQueued' =
       [pAbortQueued EXCEPT ![c] = pAbortQueued[c] \/ pReqState[c] \in {"created", "sent"}]
  /\ pRes' = [pRes EXCEPT ![c] = DestroyedRes(pRes[c])]
  /\ pSessionToUse' =
       [pSessionToUse EXCEPT ![c] = Cleanup(pSessionToUse[c], pTempPartition[c])]
  /\ pPromise' =
       [pPromise EXCEPT ![c] =
          Settle(pPromise[c], "rejected", TimeoutError(PairOpts(c).timeout))]
  /\ UNCHANGED <<pUrl, pProxy, pStage, pTempPartition, pSessions, pReqSession, pCaught,
                 pResMeta>>
  /\ UNCHANGED <<reqVars, hdrVars, wrapVars>>

\* Lines 107-115: call c's response arrives.
PairResponse(c) ==
  /\ pStage[c] = "sent" /\ pReqState[c] = "sent" /\ pRes[c] = "none"
  /\ "response" \in PairHandlers(c)
  /\ \E r \in ResponseEvents :
       pResMeta' = [pResMeta EXCEPT ![c] =
                      [statusCode |-> r.statusCode, statusMessage |-> r.statusMessage,
                       headers |-> ExtractHeaders(r.rawHeaders)]]
  /\ pRes' = [pRes EXCEPT ![c] = "open"]
  /\ UNCHANGED <<pUrl, pProxy, pStage, pTempPartition, pSessionToUse, pSessions,
                 pReqSession, pCaught, pPromise, pReqState, pTimer, pAbortQueued>>
  /\ UNCHANGED <<reqVars, hdrVars, wrapVars>>

\* Lines 121-151: call c's response ends.
PairEnd(c) ==
  /\ pReqState[c] = "sent" /\ pRes[c] = "open"
  /\ pRes' = [pRes EXCEPT ![c] = "ended"]
  /\ pReqState' = [pReqState EXCEPT ![c] = "done"]
  /\ pSessionToUse' =
       [pSessionToUse EXCEPT ![c] = Cleanup(pSessionToUse[c], pTempPartition[c])]
  /\ pTimer' = [pTimer EXCEPT ![c] = ClearTimeout(pTimer[c])]
  /\ LET d == Decoded(PairOpts(c).responseType, Concat(<< >>)) IN
       pPromise' =
         [pPromise EXCEPT ![c] =
            IF d.ok
            THEN Settle(pPromise[c], "resolved", ResponseValue(d.data, pResMeta[c], pUrl[c]))
            ELSE Settle(pPromise[c], "rejected", ParseError("SyntaxError"))]
  /\ UNCHANGED <<pUrl, pProxy, pStage, pTempPartition, pSessions, pReqSession, pCaught,
                 pAbortQueued, pResMeta>>
  /\ UNCHANGED <<reqVars, hdrVars, wrapVars>>

\* Lines 153-157: call c's response stream fails.
PairResError(c) ==
  /\ pReqState[c] = "sent" /\ pRes[c] = "open"
  /\ pRes' = [pRes EXCEPT ![c] = "errored"]
  /\ pReqState' = [pReqState EXCEPT ![c] = "errored"]
  /\ pSessionToUse' =
       [pSessionToUse EXCEPT ![c] = Cleanup(pSessionToUse[c], pTempPartition[c])]
  /\ pTimer' = [pTimer EXCEPT ![c] = ClearTimeout(pTimer[c])]
  /\ \E e \in StackErrors :
       pPromise' = [pPromise EXCEPT ![c] = Settle(pPromise[c], "rejected", TransportError(e))]
  /\ UNCHANGED <<pUrl, pProxy, pStage, pTempPartition, pSessions, pReqSession, pCaught,
                 pAbortQueued, pResMeta>>
  /\ UNCHANGED <<reqVars, hdrVars, wrapVars>>

\* Lines 160-164: call c's request fails.
PairReqError(c) ==
  /\ pStage[c] = "sent" /\ pReqState[c] = "sent"
  /\ "error" \in PairHandlers(c)
  /\ pReqState' = [pReqState EXCEPT ![c] = "errored"]
  /\ pRes' = [pRes EXCEPT ![c] = DestroyedRes(pRes[c])]
  /\ pSessionToUse' =
       [pSessionToUse EXCEPT ![c] = Cleanup(pSessionToUse[c], pTempPartition[c])]
  /\ pTimer' = [pTimer EXCEPT ![c] = ClearTimeout(pTimer[c])]
  /\ \E e \in StackErrors :
       pPromise' = [pPromise EXCEPT ![c] = Settle(pPromise[c], "rejected", TransportError(e))]
  /\ UNCHANGED <<pUrl, pProxy, pStage, pTempPartition, pSessions, pReqSession, pCaught,
                 pAbortQueued, pResMeta>>
  /\ UNCHANGED <<reqVars, hdrVars, wrapVars>>

\* Lines 166-170: call c's request is aborted, by req.abort() or by the stack.
PairAbortEvent(c) ==
  /\ "abort" \in PairHandlers(c)
  /\ pAbortQueued[c] \/ (pStage[c] = "sent" /\ pReqState[c] = "sent")
  /\ pAbortQueued' = [pAbortQueued EXCEPT ![c] = FALSE]
  /\ pReqState' = [pReqState EXCEPT ![c] = "aborted"]
  /\ pRes' = [pRes EXCEPT ![c] = DestroyedRes(pRes[c])]
  /\ pSessionToUse' =
       [pSessionToUse EXCEPT ![c] = Cleanup(pSessionToUse[c], pTempPartition[c])]
  /\ pTimer' = [pTimer EXCEPT ![c] = ClearTimeout(pTimer[c])]
  /\ pPromise' = [pPromise EXCEPT ![c] = Settle(pPromise[c], "rejected", AbortError)]
  /\ UNCHANGED <<pUrl, pProxy, pStage, pTempPartition, pSessions, pReqSession, pCaught,
                 pResMeta>>
  /\ UNCHANGED <<reqVars, hdrVars, wrapVars>>

\* ========================================================= specifications
Init == InitReq /\ IdleHdr /\ IdleWrap /\ IdlePair
Next ==
  \/ Request \/ SetProxyResolves \/ SetProxyRejects \/ ThenCallback \/ CatchCallback
  \/ TimerFires \/ Redirect \/ Response \/ Data \/ End \/ ResError \/ ReqError
  \/ AbortEvent
Spec == Init /\ [][Next]_vars

\* Timers and queued callbacks run; what the network stack delivers is up to it.
FairSpec ==
  /\ Spec
  /\ WF_vars(Request) /\ WF_vars(ThenCallback) /\ WF_vars(CatchCallback)
  /\ WF_vars(TimerFires)
  /\ WF_vars(abortQueued /\ AbortEvent)

HdrInit == IdleReq /\ InitHdr /\ IdleWrap /\ IdlePair
HdrNext == ResponseHeaders
HdrSpec == HdrInit /\ [][HdrNext]_vars

WrapInit == IdleReq /\ IdleHdr /\ InitWrap /\ IdlePair
WrapNext == Get \/ Post \/ Put \/ Del \/ Patch \/ ApplyHeaders
WrapSpec == WrapInit /\ [][WrapNext]_vars

PairInit == IdleReq /\ IdleHdr /\ IdleWrap /\ InitPair
PairNext ==
  \E c \in Calls :
    \/ PairRequest(c) \/ PairSetProxyResolves(c) \/ PairSetProxyRejects(c)
    \/ PairThenCallback(c) \/ PairCatchCallback(c) \/ PairTimerFires(c)
    \/ PairResponse(c) \/ PairEnd(c) \/ PairResError(c) \/ PairReqError(c)
    \/ PairAbortEvent(c)
PairSpec == PairInit /\ [][PairNext]_vars

\* ================================================================= claims
Settled == promise.state # "pending"
RejectedWith(e) == promise.state = "rejected" /\ promise.value = e
TimedOut == promise.state = "rejected" /\ promise.value.kind = "Request timeout after ms"

\* C1: the call settles at most once. The first terminal handler to run
\* settles the promise, and once it is settled no later event changes its
\* state or the value or error it settled with.
C1_SettlesAtMostOnce ==
  [][/\ Settled => promise' = promise
     /\ (~Settled /\ attempts' > attempts) => promise'.state # "pending"]_vars
\* A second terminal event has run after the call settled.
C1_Witness == Settled /\ attempts >= 2

\* C2: when the timer fires while the call is still pending, the request is
\* aborted and the call rejects with the timeout error carrying the configured
\* timeout, and that outcome stays, whatever had been received before.
C2_TimeoutWins ==
  [][/\ (timer = "pending" /\ timer' = "fired" /\ ~Settled) =>
          /\ promise' = [state |-> "rejected", value |-> TimeoutError(opts.timeout)]
          /\ reqState' = "aborted"
          /\ reqCalls' = Append(reqCalls, <<"abort">>)
     /\ (TimedOut /\ timer = "fired") =>
          promise' = [state |-> "rejected", value |-> TimeoutError(opts.timeout)]]_vars
\* The timer fired after body chunks had arrived, and the abort event that
\* followed has been handled.
C2_Witness ==
  /\ RejectedWith(TimeoutError(opts.timeout))
  /\ timer = "fired" /\ Len(chunks) > 0 /\ ~abortQueued /\ attempts = 2

\* C3: the redirect limit rejects the call exactly at redirect number
\* maxRedirects + 1, aborting the request; earlier redirects leave the call
\* and the request alone, and at most maxRedirects redirects are followed.
C3_RedirectLimit ==
  [][/\ redirectCount' = redirectCount + 1 =>
          IF redirectCount' = opts.maxRedirects + 1
          THEN /\ promise' = [state |-> "rejected",
                              value |-> TooManyRedirectsError(opts.maxRedirects)]
               /\ reqState' = "aborted"
               /\ fetched' = fetched
          ELSE /\ promise' = promise
               /\ reqState' = reqState
     /\ fetched' <= opts.maxRedirects
     /\ redirectCount' <= opts.maxRedirects + 1
     /\ promise'.value.kind = "Too many redirects" =>
          redirectCount' = opts.maxRedirects + 1]_vars
\* One redirect was followed and the second hit the limit of 1.
C3_Witness ==
  /\ RejectedWith(TooManyRedirectsError(1))
  /\ opts.maxRedirects = 1 /\ fetched = 1 /\ redirectCount = 2

\* C4: with timeout > 0 every call eventually settles, also when proxy
\* configuration never completes.
C4_EventuallySettles == (opts.timeout > 0) ~> Settled

\* C5: once the call has settled, the timeout timer is not pending.
C5_NoTimerOnceSettled == Settled => timer # "pending"

\* C6: after the call rejected with the timeout error no handler runs: no
\* per-call state changes and no further settlement is attempted.
C6_NothingAfterTimeout ==
  [][TimedOut =>
       /\ attempts' = attempts
       /\ UNCHANGED <<chunks, redirectCount, timer, sessionToUse, promise>>]_vars

ProxyFailures == {"fromPartition failed", "setProxy failed"}
\* C8: the call rejects with the proxy-setup error exactly when a proxy was
\* requested and provisioning or configuring its context failed; an error
\* thrown while opening, configuring or sending the request is not reported
\* as a proxy-setup error.
C8_ProxySetupErrorOnlyForProxy ==
  /\ (promise.state = "rejected" /\ promise.value.kind = "Failed to setup proxy") =>
       (opts.proxy.tag = "proxy" /\ caught \in ProxyFailures)
  /\ (pc = "caught" /\ caught \in ProxyFailures) =>
       RejectedWith(ProxySetupError(caught))

\* C9: the request is opened on the default session exactly when proxy is
\* omitted or false, and on a freshly created non-caching partition exactly
\* when proxy is a descriptor; without a descriptor no partition is created
\* and the default session's proxy rules stay as they were.
C9_SessionChoice ==
  /\ reqState # "none" =>
       /\ (reqSession = DefaultSession) <=> (opts.proxy.tag # "proxy")
       /\ (opts.proxy.tag = "proxy") =>
            /\ reqSession = tempPartition
            /\ reqSession \in DOMAIN sessions \ {DefaultSession}
            /\ sessions[reqSession] = [cache |-> FALSE, proxyRules |-> ProxyUrl(opts.proxy)]
  /\ (DOMAIN sessions # {DefaultSession}) => opts.proxy.tag = "proxy"
  /\ (opts.proxy.tag # "proxy") =>
       /\ tempPartition = NullSession
       /\ sessions = (DefaultSession :> [cache |-> TRUE, proxyRules |-> <<"system">>])
\* A proxied request was sent on its own partition.
C9_Witness ==
  /\ reqState = "sent" /\ opts.proxy = ProxyDescriptor
  /\ reqSession = tempPartition /\ reqSession # DefaultSession

BodyMethods == {"POST", "PUT", "PATCH"}
CallerContentTypes ==
  {wOptions.headers[i][2] :
     i \in {j \in 1..Len(wOptions.headers) : ToLowerCase(wOptions.headers[j][1]) = ContentType}}
Injected ==
  /\ ObjHas(wArgs.headers, ContentType)
  /\ ObjGet(wArgs.headers, ContentType) = ApplicationJson
\* C7: for post, put and patch the body is the data itself (a string) or its
\* JSON serialization, content-type: application/json is injected exactly
\* when the data is not a string and the caller gave no content-type key in
\* any letter case, and the content-type the request carries is then the
\* caller's own.
C7_ContentTypeInjection ==
  (wPc = "applied" /\ wMethod \in BodyMethods) =>
    /\ wArgs.body = (IF wData.type = "string" THEN wData.text ELSE JsonStringify(wData))
    /\ Injected <=> (wData.type # "string" /\ CallerContentTypes = {})
    /\ CallerContentTypes # {} =>
         /\ ObjHas(AppliedHeaders(wCalls), ContentType)
         /\ ObjGet(AppliedHeaders(wCalls), ContentType) \in CallerContentTypes

RawPairs(raw) == 1..(Len(raw) \div 2)
NameAt(raw, i) == ToLowerCase(raw[2 * i - 1])
LastOf(raw, k) ==
  CHOOSE i \in RawPairs(raw) :
    NameAt(raw, i) = k /\ \A j \in RawPairs(raw) : j > i => NameAt(raw, j) # k
\* C10: the extracted headers have exactly the lowercased names of the raw
\* sequence as keys, and each key carries the value of the last raw entry
\* whose name equals it ignoring case.
C10_HeadersLastWins ==
  hdrDone =>
    /\ ObjKeys(responseHeaders) = {NameAt(rawHeaders, i) : i \in RawPairs(rawHeaders)}
    /\ UniqueKeys(responseHeaders)
    /\ \A k \in ObjKeys(responseHeaders) :
         ObjGet(responseHeaders, k) = rawHeaders[2 * LastOf(rawHeaders, k)]
\* 'Set-Cookie' followed by 'set-cookie' keeps the second value.
C10_Witness ==
  /\ hdrDone
  /\ rawHeaders = <<"Set-Cookie", "a", "set-cookie", "b">>
  /\ responseHeaders = << <<"set-cookie", "b">> >>

\* The bytes the stack delivered, in arrival order.
RECURSIVE JoinR(_)
JoinR(cs) ==
  IF cs = << >> THEN << >>
  ELSE JoinR(SubSeq(cs, 1, Len(cs) - 1)) \o cs[Len(cs)]
Resolved == promise.state = "resolved"

\* C11: with responseType 'arraybuffer' a resolved call returns the bytes of
\* exactly the chunks the data events delivered, in arrival order.
C11_ArrayBufferIsBody ==
  (Resolved /\ opts.responseType = "arraybuffer") =>
    promise.value.data =
      [type |-> "buffer", text |-> << >>, bytes |-> JoinR(delivered), num |-> 0]
\* A body split into two different chunks came back whole.
C11_Witness ==
  /\ Resolved /\ opts.responseType = "arraybuffer"
  /\ delivered = << <<49>>, <<49, 120>> >>
  /\ promise.value.data.bytes = <<49, 49, 120>>

\* C12: with responseType 'json', when the body ends the call resolves with
\* the parsed value if the body is valid JSON and rejects with the parse
\* error otherwise; it never resolves with anything but a parsed value.
C12_JsonParsedOrRejected ==
  [][/\ (opts.responseType = "json" /\ res = "open" /\ res' = "ended") =>
          LET text == Utf8Decode(JoinR(delivered)) IN
            IF JsonValid(text)
            THEN promise'.state = "resolved" /\ promise'.value.data = JsonParse(text)
            ELSE promise' = [state |-> "rejected", value |-> ParseError("SyntaxError")]
     /\ (opts.responseType = "json" /\ promise'.state = "resolved") =>
          /\ promise'.value.data.type = "number"
          /\ JsonValid(Utf8Decode(JoinR(delivered')))]_vars
\* A body that is not JSON ended and the call rejected with the parse error.
C12_Witness ==
  /\ opts.responseType = "json" /\ res = "ended"
  /\ delivered = << <<49>>, <<49, 120>> >>
  /\ RejectedWith(ParseError("SyntaxError"))

\* C13: a resolved Response carries the url given to request, whatever
\* redirects were followed, and the status, status text and headers of the
\* response event whose body ended.
C13_ResponseFields ==
  Resolved =>
    /\ promise.value.url = opts.url
    /\ promise.value.status = resEvent.statusCode
    /\ promise.value.statusText = resEvent.statusMessage
    /\ ObjKeys(promise.value.headers) =
         {NameAt(resEvent.rawHeaders, i) : i \in RawPairs(resEvent.rawHeaders)}
    /\ \A k \in ObjKeys(promise.value.headers) :
         ObjGet(promise.value.headers, k) =
           resEvent.rawHeaders[2 * LastOf(resEvent.rawHeaders, k)]
\* A redirect was followed before the 404 response that resolved the call.
C13_Witness ==
  /\ Resolved /\ fetched >= 1
  /\ promise.value.url = GoodUrl /\ promise.value.status = 404
  /\ promise.value.headers = << <<"set-cookie", "b">> >>

ProxyConfigured ==
  /\ tempPartition \in DOMAIN sessions
  /\ sessions[tempPartition].proxyRules = ProxyUrl(opts.proxy)
\* C14: with a proxy requested the request is opened only once the partition
\* has been configured; when provisioning or configuration fails no request
\* is opened or sent and no timer is started.
C14_RequestAfterProxySetup ==
  (opts.proxy.tag = "proxy") =>
    /\ (reqState # "none" \/ timer # "unset" \/ reqCalls # << >> \/ handlers # {}
          \/ pc \in {"thenQueued", "sent"}) => ProxyConfigured
    /\ (pc \in {"catchQueued", "caught"} /\ caught \in ProxyFailures) =>
         /\ ~ProxyConfigured
         /\ reqState = "none" /\ reqSession = NullSession
         /\ reqCalls = << >> /\ timer = "unset"
\* setProxy failed and the call rejected without a request or a timer.
C14_Witness ==
  /\ opts.proxy.tag = "proxy" /\ opts.timeout > 0 /\ opts.url = GoodUrl
  /\ RejectedWith(ProxySetupError("setProxy failed"))
  /\ reqState = "none" /\ timer = "unset"

\* C15: with timeout <= 0 no timer is ever started: none is pending, none
\* fires, and the call never rejects with the timeout error.
C15_NoTimerWithoutTimeout ==
  (opts.timeout <= 0) =>
    /\ timer = "unset"
    /\ ~TimedOut
    /\ promise.value.kind # "Request timeout after ms"
\* A request without timeout is in flight, its response open, and no timer.
C15_Witness ==
  /\ opts.timeout <= 0 /\ reqState = "sent" /\ res = "open" /\ timer = "unset"

\* C16: a proxied call that has settled holds no reference to its temporary
\* session; a call without proxy keeps its reference to the default session.
C16_SessionReference ==
  /\ (opts.proxy.tag = "proxy" /\ Settled) => sessionToUse = NullSession
  /\ (opts.proxy.tag # "proxy") => sessionToUse = DefaultSession
\* A proxied call resolved and let go of its partition's session.
C16_Witness ==
  /\ opts.proxy.tag = "proxy" /\ Resolved
  /\ tempPartition # NullSession /\ reqSession = tempPartition
  /\ sessionToUse = NullSession

CallsOf(kind) == {i \in 1..Len(reqCalls) : reqCalls[i][1] = kind}
\* C18: the request is ended at most once, and exactly once when the
\* then-callback completes; before the end every header entry has been set,
\* the four request handlers are registered and a supplied body has been
\* written once; nothing is written after the end.
C18_EndAfterSetup ==
  /\ Cardinality(CallsOf("end")) <= 1
  /\ Cardinality(CallsOf("write")) <= 1
  /\ pc = "sent" => Cardinality(CallsOf("end")) = 1
  /\ \A e \in CallsOf("end") :
       /\ \A j \in 1..Len(opts.headers) :
            \E i \in CallsOf("setHeader") :
              i < e /\ reqCalls[i][2] = opts.headers[j][1]
                    /\ reqCalls[i][3] = opts.headers[j][2]
       /\ \A h \in RequestHandlers :
            \E i \in CallsOf("on") : i < e /\ reqCalls[i][2] = h
       /\ Cardinality(CallsOf("write")) = (IF BodyTruthy(opts.body) THEN 1 ELSE 0)
       /\ \A w \in CallsOf("write") : w < e /\ reqCalls[w][2] = opts.body.bytes
\* A request with a header and a string body was sent: its end is the last call.
C18_Witness ==
  /\ reqState = "sent" /\ opts.headers # << >> /\ opts.body = StringBody
  /\ CallsOf("end") = {Len(reqCalls)}
  /\ CallsOf("write") = {Len(reqCalls) - 1}

\* C19: post, put and patch leave the caller's headers object as it was.
C19_CallerHeadersUnchanged ==
  (wPc # "ready" /\ wMethod \in BodyMethods) => wCaller = wOptions.headers

\* Call c is pending and holds the temporary context it obtained.
InFlight(c) ==
  /\ ProxyRequested(pProxy[c]) /\ pPromise[c].state = "pending"
  /\ pStage[c] \notin {"start", "idle"}
  /\ pSessionToUse[c] # DefaultSession
\* C17: any two proxied calls in flight together use distinct temporary
\* contexts, and a call that has sent its request sent it on a context
\* carrying its own proxy rules.
C17_DistinctContexts ==
  \A a, b \in Calls :
    (a # b /\ InFlight(a) /\ InFlight(b)) =>
      /\ pSessionToUse[a] # pSessionToUse[b]
      /\ pReqState[a] = "sent" => pReqSession[a].proxyRules = ProxyUrl(pProxy[a])

====
